---- MODULE Spec2Model ----
(***************************************************************************)
(* Model of PytestApeRunner (src/src/ape_test/runners.py): the lazy        *)
(* provider connection at collection finish, the snapshot / revert wrapper *)
(* around every test, the warn-once flag and the disconnect at session     *)
(* finish.  The provider, the network manager, the logger and the host     *)
(* runner (pytest / pluggy) are the environment: every call into them      *)
(* draws its outcome from the outcomes that call can have.                 *)
(***************************************************************************)
EXTENDS Integers, Sequences, FiniteSets, TLC

\* ---------------------------------------------------------------- bounds
MaxTests == 2          \* most test items a session collects
MaxCollections == 2    \* most times the host calls pytest_collection_finish
MaxState == 1          \* provider chain states are 0..MaxState
MaxSwitches == 1       \* most times the network manager changes the active provider

\* ------------------------------------------------------------ value sets
None == -1                      \* Python None, as a snapshot id
NoProvider == "None"            \* Python None, as networks.active_provider
Providers == {"full", "unimpl", "absent", "flaky"}
Choices == Providers \cup {"bad"}          \* values of the --network option
Tokens == 0 .. MaxTests                    \* snapshot ids a provider can issue
States == 0 .. MaxState
NoSnap == -1                               \* token with no stored snapshot
BodyOutcomes == {"pass", "fail", "error", "skip"}
HookResults == {"falsy", "truthy", "raises"}
CallOutcomes == {"ok", "raises"}

VARIABLES
  phase,            \* host lifecycle: "collect", "run", "abort", "done"
  pc,               \* position of pytest_runtest_protocol: "idle", "body", "after"
  items,            \* len(session.items)
  network_choice,   \* config.getoption("network")
  active_provider,  \* networks.active_provider
  connected,        \* provider -> is it connected
  warned,           \* self._warned_for_missing_features
  warnings,         \* number of warnings the logger received
  snapshot_id,      \* the local snapshot_id of pytest_runtest_protocol
  chain,            \* provider -> chain state
  snaps,            \* provider -> token -> chain state stored under the token
  issued,           \* provider -> tokens snapshot() has returned so far
  calls,            \* the calls made on collaborators, in order
  testIdx,          \* number of tests the host has started
  cur,              \* the test in progress, or the last one finished
  results,          \* one record per test the host has finished
  collectCalls,     \* number of pytest_collection_finish calls
  outcome,          \* what the last pytest_collection_finish got from its yield
  switches          \* times the network manager changed the active provider

vars == <<phase, pc, items, network_choice, active_provider, connected, warned,
          warnings, snapshot_id, chain, snaps, issued, calls, testIdx, cur,
          results, collectCalls, outcome, switches>>

\* ----------------------------------------------------------- environment
\* Python truthiness of a snapshot id: None, 0, "" and b"" are falsy.
\* The token 0 stands for every falsy token.
Truthy(x) == x # None /\ x # 0

\* hasattr(provider, "snapshot"): None has no such attribute, and neither
\* has a provider that does not define the capability.
hasattr_snapshot_OfNone(p) == p # "absent"

hasattr_snapshot(p) == p # NoProvider /\ p # "absent"

\* What one call of provider.snapshot() can do.
SnapshotOutcomes(p) ==
  CASE p = NoProvider -> {"AttributeError"}
    [] p = "full"     -> {"ok"}
    [] p = "unimpl"   -> {"NotImplementedError"}
    [] p = "flaky"    -> {"ok", "NotImplementedError", "OtherError"}
    [] OTHER          -> {"AttributeError"}

\* The tokens a successful snapshot() of p can return next: one it has not
\* returned before, falsy or truthy.  Truthy tokens differ only by identity,
\* so the least unused one stands for all of them.
FreshTokens(p) ==
  LET unused == Tokens \ issued[p]
      truthy == {t \in unused : Truthy(t)}
  IN  {t \in unused : ~Truthy(t) \/ \A u \in truthy : t <= u}

\* What one call of provider.revert(token) can do.
RevertOutcomes(p, tok) ==
  CASE p = NoProvider -> {"AttributeError"}
    [] tok \notin Tokens -> {"OtherError"}
    [] snaps[p][tok] = NoSnap -> {"OtherError"}
    [] p = "flaky"    -> {"ok", "OtherError"}
    [] OTHER          -> {"ok"}

\* networks.get_provider_from_choice: the choice names the provider; an
\* unknown choice raises.
ResolveError == "ResolveError"
get_provider_from_choice(c) == IF c \in Providers THEN c ELSE ResolveError

\* One entry of the call log; test is the number of the test the call was
\* made in, or of the pytest_collection_finish call it was made in (0 in
\* pytest_sessionfinish).
Call(op, p, tok, res, n) == [op |-> op, prov |-> p, tok |-> tok, res |-> res, test |-> n]

\* The record kept for a finished test: the provider and the snapshot result
\* its wrapper saw, the chain state its body started from, whether the body
\* ran, and whether the outcome reported for the test is the body's own.
Result(n, c, ran, reported) ==
  [test |-> n, prov |-> c.prov, snap |-> c.snap, start |-> c.start,
   ran |-> ran, faithful |-> (ran /\ reported = c.body)]

\* The test in progress, or the last one finished: as Result, with the
\* body's outcome and the outcome reported.
Test(p, snap, start) ==
  [prov |-> p, snap |-> snap, start |-> start, body |-> "none", reported |-> "none"]

NoCur == Test(NoProvider, "none", NoSnap)

\* ------------------------------------------------------------------ Init
\* The runner as __init__ leaves it, in a session of any number of items.  A
\* provider may already be active when the session starts; the hook then
\* never reads the --network option, which is taken to name that provider.
Init ==
  /\ phase = "collect"
  /\ pc = "idle"
  /\ items \in 0 .. MaxTests
  /\ active_provider \in Providers \cup {NoProvider}
  /\ network_choice \in (IF active_provider = NoProvider THEN Choices ELSE {active_provider})
  /\ connected = [p \in Providers |-> p = active_provider]
  /\ warned = FALSE
  /\ warnings = 0
  /\ snapshot_id = None
  /\ chain = [p \in Providers |-> 0]
  /\ snaps = [p \in Providers |-> [t \in Tokens |-> NoSnap]]
  /\ issued = [p \in Providers |-> {}]
  /\ calls = <<>>
  /\ testIdx = 0
  /\ cur = NoCur
  /\ results = <<>>
  /\ collectCalls = 0
  /\ outcome = "none"
  /\ switches = 0

\* ------------------------------------------------------------ the runner
\* self._provider
provider == active_provider

\* the guard of _warn_for_unimplemented_snapshot
AlreadyWarned_Never(w) == FALSE

AlreadyWarned(w) == w

\* self._warned_for_missing_features = True, the last statement of
\* _warn_for_unimplemented_snapshot
FlagAfterWarning_NotSet == FALSE

FlagAfterWarning == TRUE

warn_for_unimplemented_snapshot ==
  IF AlreadyWarned(warned)
  THEN UNCHANGED <<warned, warnings>>
  ELSE /\ warnings' = warnings + 1
       /\ warned' = FlagAfterWarning

\* the condition of pytest_collection_finish
ShouldConnect_IgnoresItems(r, n, active) == r # "truthy" /\ active = NoProvider

ShouldConnect_IgnoresActive(r, n, active) == r # "truthy" /\ n > 0

ShouldConnect(r, n, active) == r # "truthy" /\ n > 0 /\ active = NoProvider

pytest_collection_finish ==
  /\ phase = "collect"
  /\ collectCalls < MaxCollections
  /\ collectCalls' = collectCalls + 1
  /\ \E r \in HookResults, c \in CallOutcomes :
       /\ outcome' = r
       /\ IF r = "raises"
          THEN /\ phase' = "abort"
               /\ UNCHANGED <<active_provider, connected, calls>>
          ELSE IF ShouldConnect(r, items, active_provider)
          THEN LET p == get_provider_from_choice(network_choice)
                   k == collectCalls + 1
               IN
               IF p = ResolveError
               THEN /\ calls' = Append(calls, Call("resolve", NoProvider, None, "raises", k))
                    /\ phase' = "abort"
                    /\ UNCHANGED <<active_provider, connected>>
               ELSE /\ active_provider' = p
                    /\ calls' = calls \o << Call("resolve", p, None, "ok", k),
                                            Call("connect", p, None, c, k) >>
                    /\ connected' = [connected EXCEPT ![p] = (c = "ok")]
                    /\ phase' = IF c = "ok" THEN "collect" ELSE "abort"
          ELSE UNCHANGED <<phase, active_provider, connected, calls>>
  /\ UNCHANGED <<pc, items, network_choice, warned, warnings, snapshot_id, chain,
                 snaps, issued, testIdx, cur, results, switches>>

\* the guard of pytest_sessionfinish
ShouldDisconnect_Always(p) == TRUE

ShouldDisconnect(p) == p # NoProvider

pytest_sessionfinish_ResetsFlag ==
  /\ phase \in {"collect", "run", "abort"}
  /\ collectCalls >= 1
  /\ pc = "idle"
  /\ phase' = "done"
  /\ warned' = FALSE
  /\ IF ShouldDisconnect(provider)
     THEN \E d \in CallOutcomes :
            /\ calls' = Append(calls, Call("disconnect", provider, None, d, 0))
            /\ connected' = IF provider \in Providers /\ d = "ok"
                            THEN [connected EXCEPT ![provider] = FALSE]
                            ELSE connected
     ELSE UNCHANGED <<calls, connected>>
  /\ UNCHANGED <<pc, items, network_choice, active_provider, warnings,
                 snapshot_id, chain, snaps, issued, testIdx, cur, results,
                 collectCalls, outcome, switches>>

pytest_sessionfinish ==
  /\ phase \in {"collect", "run", "abort"}
  /\ collectCalls >= 1
  /\ pc = "idle"
  /\ phase' = "done"
  /\ IF ShouldDisconnect(provider)
     THEN \E d \in CallOutcomes :
            /\ calls' = Append(calls, Call("disconnect", provider, None, d, 0))
            /\ connected' = IF provider \in Providers /\ d = "ok"
                            THEN [connected EXCEPT ![provider] = FALSE]
                            ELSE connected
     ELSE UNCHANGED <<calls, connected>>
  /\ UNCHANGED <<pc, items, network_choice, active_provider, warned, warnings,
                 snapshot_id, chain, snaps, issued, testIdx, cur, results,
                 collectCalls, outcome, switches>>

\* the except clause of pytest_runtest_protocol: which failures of
\* snapshot() it catches
Absorbs_Nothing(e) == FALSE

Absorbs_Everything(e) == TRUE

Absorbs(e) == e = "NotImplementedError"

\* snapshot_id = None, the first statement of pytest_runtest_protocol
SnapshotIdInit_Kept(old) == old

SnapshotIdInit(old) == None

\* pytest_runtest_protocol up to its yield
runtest_protocol_before_yield ==
  /\ phase \in {"collect", "run"}
  /\ collectCalls >= 1
  /\ pc = "idle"
  /\ testIdx < items
  /\ testIdx' = testIdx + 1
  /\ LET p == provider
         n == testIdx + 1
         sid0 == SnapshotIdInit(snapshot_id)
         start == IF p \in Providers THEN chain[p] ELSE NoSnap
     IN
     IF hasattr_snapshot(p)
     THEN \E o \in SnapshotOutcomes(p) :
            IF o = "ok"
            THEN \E t \in FreshTokens(p) :
                 /\ snapshot_id' = t
                 /\ issued' = [issued EXCEPT ![p] = @ \cup {t}]
                 /\ snaps' = [snaps EXCEPT ![p][t] = chain[p]]
                 /\ calls' = Append(calls, Call("snapshot", p, t, "ok", n))
                 /\ cur' = Test(p, "ok", start)
                 /\ pc' = "body"
                 /\ phase' = "run"
                 /\ UNCHANGED <<warned, warnings, results>>
            ELSE /\ snapshot_id' = sid0
                 /\ calls' = Append(calls, Call("snapshot", p, None, o, n))
                 /\ UNCHANGED <<issued, snaps>>
                 /\ IF Absorbs(o)
                    THEN /\ warn_for_unimplemented_snapshot
                         /\ cur' = Test(p, o, start)
                         /\ pc' = "body"
                         /\ phase' = "run"
                         /\ UNCHANGED results
                    ELSE /\ results' = Append(results,
                              Result(n, Test(p, o, NoSnap), FALSE, "internal_error"))
                         /\ cur' = [Test(p, o, NoSnap) EXCEPT !.reported = "internal_error"]
                         /\ pc' = "idle"
                         /\ phase' = "abort"
                         /\ UNCHANGED <<warned, warnings>>
     ELSE /\ warn_for_unimplemented_snapshot
          /\ snapshot_id' = sid0
          /\ cur' = Test(p, "absent", start)
          /\ pc' = "body"
          /\ phase' = "run"
          /\ UNCHANGED <<issued, snaps, calls, results>>
  /\ UNCHANGED <<items, network_choice, active_provider, connected, chain,
                 collectCalls, outcome, switches>>

\* the test body, which the host runs at the yield: it ends with any outcome
\* and may leave the chain of the active provider in any state; the host
\* resumes the wrapper after its yield whatever the outcome was
test_body ==
  /\ pc = "body"
  /\ pc' = "after"
  /\ \E o \in BodyOutcomes : cur' = [cur EXCEPT !.body = o]
  /\ IF provider \in Providers
     THEN \E s \in States : chain' = [chain EXCEPT ![provider] = s]
     ELSE UNCHANGED chain
  /\ UNCHANGED <<phase, items, network_choice, active_provider, connected,
                 warned, warnings, snapshot_id, snaps, issued, calls, testIdx,
                 results, collectCalls, outcome, switches>>

\* if snapshot_id:
ShouldRevert(sid) == Truthy(sid)

\* pytest_runtest_protocol after its yield
runtest_protocol_after_yield ==
  /\ pc = "after"
  /\ pc' = "idle"
  /\ IF ShouldRevert(snapshot_id)
     THEN \E r \in RevertOutcomes(provider, snapshot_id) :
            LET reported == IF r = "ok" THEN cur.body ELSE "internal_error" IN
            /\ calls' = Append(calls, Call("revert", provider, snapshot_id, r, testIdx))
            /\ results' = Append(results, Result(testIdx, cur, TRUE, reported))
            /\ cur' = [cur EXCEPT !.reported = reported]
            /\ IF r = "ok"
               THEN /\ chain' = [chain EXCEPT ![provider] = snaps[provider][snapshot_id]]
                    /\ snaps' = [snaps EXCEPT ![provider][snapshot_id] = NoSnap]
                    /\ UNCHANGED phase
               ELSE /\ phase' = "abort"
                    /\ UNCHANGED <<chain, snaps>>
     ELSE /\ results' = Append(results, Result(testIdx, cur, TRUE, cur.body))
          /\ cur' = [cur EXCEPT !.reported = cur.body]
          /\ UNCHANGED <<calls, chain, snaps, phase>>
  /\ UNCHANGED <<items, network_choice, active_provider, connected, warned,
                 warnings, snapshot_id, issued, testIdx, collectCalls,
                 outcome, switches>>

Next ==
  \/ pytest_collection_finish
  \/ runtest_protocol_before_yield
  \/ test_body
  \/ runtest_protocol_after_yield
  \/ pytest_sessionfinish

Spec == Init /\ [][Next]_vars

\* The network manager owns active_provider: a test body can make it
\* activate another provider, or none, while the body runs.
network_switch ==
  /\ pc = "body"
  /\ switches < MaxSwitches
  /\ switches' = switches + 1
  /\ \E q \in (Providers \cup {NoProvider}) \ {active_provider} :
       /\ active_provider' = q
       /\ connected' = IF q \in Providers
                       THEN [connected EXCEPT ![q] = TRUE]
                       ELSE connected
  /\ UNCHANGED <<phase, pc, items, network_choice, warned, warnings, snapshot_id,
                 chain, snaps, issued, calls, testIdx, cur, results,
                 collectCalls, outcome>>

NextSwitch == Next \/ network_switch

SpecSwitch == Init /\ [][NextSwitch]_vars

\* ---------------------------------------------------------------- claims
Count(op) == Cardinality({i \in DOMAIN calls : calls[i].op = op})

\* test n has run to the end of its wrapper
TestOver(n) == n < testIdx \/ (n = testIdx /\ pc = "idle")

Degraded(r) == r.snap \in {"absent", "NotImplementedError"}

\* C1: for every test whose snapshot() succeeded, revert is called on that
\* provider after the body, whatever the body's outcome, and before any
\* snapshot of a later test.
C1_RevertAfterEverySnapshot ==
  \A i \in DOMAIN calls :
    (calls[i].op = "snapshot" /\ calls[i].res = "ok" /\ TestOver(calls[i].test))
    => \E j \in DOMAIN calls :
         /\ j > i
         /\ calls[j].op = "revert"
         /\ calls[j].test = calls[i].test
         /\ calls[j].prov = calls[i].prov
         /\ \A k \in DOMAIN calls :
              (calls[k].op = "snapshot" /\ calls[k].test > calls[i].test) => j < k

\* the chain states the test bodies started from, in order
StartsSeen ==
  [i \in 1 .. Len(results) |-> results[i].start]
    \o (IF pc \in {"body", "after"} THEN <<cur.start>> ELSE <<>>)

\* C2: with a provider whose snapshot and revert work, every test body starts
\* from the chain state the first test body started from.
C2_EveryBodyStartsFromBaseline ==
  active_provider = "full"
    => \A i \in DOMAIN StartsSeen : StartsSeen[i] = StartsSeen[1]

\* C3: every revert call carries the token the snapshot() of the same test
\* returned, never the token of an earlier test, and no token is passed to
\* revert twice.
C3_RevertCarriesOwnToken ==
  \A j \in DOMAIN calls :
    calls[j].op = "revert"
    => /\ \E i \in DOMAIN calls :
            /\ i < j
            /\ calls[i].op = "snapshot"
            /\ calls[i].res = "ok"
            /\ calls[i].test = calls[j].test
            /\ calls[i].prov = calls[j].prov
            /\ calls[i].tok = calls[j].tok
       /\ \A i \in DOMAIN calls :
            (calls[i].op = "snapshot" /\ calls[i].res = "ok"
               /\ calls[i].test < calls[j].test /\ calls[i].prov = calls[j].prov)
            => calls[i].tok # calls[j].tok
       /\ \A k \in DOMAIN calls :
            (k # j /\ calls[k].op = "revert" /\ calls[k].prov = calls[j].prov)
            => calls[k].tok # calls[j].tok

\* a second test has reverted its own token after a first test did
C3_Witness ==
  \E i, j \in DOMAIN calls :
    /\ calls[i].op = "revert" /\ calls[i].test = 1
    /\ calls[j].op = "revert" /\ calls[j].test = 2

\* C4: the snapshot-unsupported warning is logged at most once in a session,
\* however many tests detect an absent or a not-implemented snapshot.
C4_WarnsAtMostOnce == warnings <= 1

\* one test found the capability absent, another found it not implemented,
\* and one warning was logged
C4_Witness ==
  /\ warnings = 1
  /\ \E i, j \in DOMAIN results :
       /\ results[i].snap = "absent"
       /\ results[j].snap = "NotImplementedError"

\* C5: a test whose snapshot() failed with not-implemented has its body run,
\* no revert call, and the body's own outcome reported.
C5_NotImplementedIsAbsorbed ==
  /\ \A i \in DOMAIN results :
       results[i].snap = "NotImplementedError"
       => /\ results[i].ran
          /\ results[i].faithful
          /\ \A k \in DOMAIN calls :
               calls[k].test = results[i].test => calls[k].op # "revert"
  /\ (pc = "idle" /\ cur.snap = "NotImplementedError")
       => (cur.body \in BodyOutcomes /\ cur.reported = cur.body)

\* a failing test was reported as failing after a not-implemented snapshot
C5_Witness ==
  /\ pc = "idle"
  /\ results # <<>>
  /\ results[Len(results)].snap = "NotImplementedError"
  /\ cur.snap = "NotImplementedError"
  /\ cur.body = "fail"
  /\ cur.reported = "fail"

\* C6: with zero collected tests the collection-finish hook resolves no
\* provider, calls connect() on none and leaves the active provider as it was.
C6_NoTestsNoConnect ==
  /\ [](items = 0 => (Count("connect") = 0 /\ Count("resolve") = 0))
  /\ [][items = 0 => active_provider' = active_provider]_vars

\* the hook has run, with nothing to stop it but the empty collection, in a
\* session that had no provider
C6_Witness ==
  /\ items = 0
  /\ collectCalls >= 1
  /\ outcome = "falsy"
  /\ phase = "collect"
  /\ active_provider = NoProvider

\* C7: a collection-finish call made while a provider is active resolves
\* nothing, connects nothing and leaves the active provider unchanged, and
\* connect() is called at most once in a session.
C7_CollectionFinishIdempotent ==
  /\ [](Count("connect") <= 1)
  /\ [][(collectCalls' = collectCalls + 1 /\ active_provider # NoProvider)
          => (active_provider' = active_provider /\ calls' = calls)]_vars

\* the hook has run a second time, with nothing to stop it but the active
\* provider, after its first run connected that provider
C7_Witness ==
  /\ collectCalls = 2
  /\ outcome = "falsy"
  /\ phase = "collect"
  /\ items > 0
  /\ \E i \in DOMAIN calls :
       calls[i].op = "connect" /\ calls[i].res = "ok" /\ calls[i].test = 1

\* C8: disconnect() is never called before session finish; at session finish
\* it has been called exactly once if a provider is active and not at all if
\* none is.
C8_DisconnectExactlyOnce ==
  /\ phase # "done" => Count("disconnect") = 0
  /\ phase = "done" =>
       Count("disconnect") = (IF active_provider # NoProvider THEN 1 ELSE 0)

\* a session of two tests, one of them failing, has finished and disconnected
C8_Witness ==
  /\ phase = "done"
  /\ Count("disconnect") = 1
  /\ Len(results) = 2
  /\ cur.body = "fail"

\* C9: a test run with no active provider makes no snapshot and no revert
\* call, raises nothing of its own, and reports the body's own outcome.
C9_SafeWithoutProvider ==
  /\ \A i \in DOMAIN results :
       results[i].prov = NoProvider
       => /\ results[i].ran
          /\ results[i].faithful
          /\ \A k \in DOMAIN calls :
               calls[k].test = results[i].test
               => calls[k].op \notin {"snapshot", "revert"}
  /\ (pc = "idle" /\ results # <<>> /\ cur.prov = NoProvider)
       => (cur.body \in BodyOutcomes /\ cur.reported = cur.body)
  /\ \A k \in DOMAIN calls :
       calls[k].op \in {"snapshot", "revert"} => calls[k].prov # NoProvider

\* a test has finished with no provider active
C9_Witness ==
  /\ active_provider = NoProvider
  /\ pc = "idle"
  /\ results # <<>>
  /\ results[Len(results)].prov = NoProvider
  /\ cur.body = "error"
  /\ cur.reported = "error"

\* C10: if provider resolution or connect() failed in the collection-finish
\* hook, no provider is recorded as active and session finish disconnects
\* nothing.
C10_ActiveOnlyAfterConnect ==
  (\E i \in DOMAIN calls :
     calls[i].op \in {"resolve", "connect"} /\ calls[i].res = "raises")
  => (active_provider = NoProvider /\ Count("disconnect") = 0)

\* C11: whether revert is called depends only on snapshot() having succeeded:
\* after every test whose snapshot() returned a token, whatever its value
\* (0 and the other falsy values included), revert has been called with it.
C11_RevertWhateverTheToken ==
  \A i \in DOMAIN calls :
    (calls[i].op = "snapshot" /\ calls[i].res = "ok" /\ TestOver(calls[i].test))
    => \E j \in DOMAIN calls :
         /\ calls[j].op = "revert"
         /\ calls[j].test = calls[i].test
         /\ calls[j].tok = calls[i].tok

\* C12: the warning is logged, and the warned flag set, only in a test that
\* has an active provider whose snapshot capability is absent or not
\* implemented; a test with no active provider does neither.
C12_WarnsOnlyWithProvider ==
  [][(warnings' # warnings \/ warned' # warned)
       => /\ active_provider # NoProvider
          /\ cur'.prov = active_provider
          /\ cur'.snap \in {"absent", "NotImplementedError"}]_vars

\* the step in which pytest_runtest_protocol finds the snapshot capability
\* absent or not implemented and goes on to the body
DetectsMissingSnapshot ==
  /\ pc = "idle"
  /\ pc' = "body"
  /\ cur'.snap \in {"absent", "NotImplementedError"}

\* C13: the warned flag starts false, becomes true exactly in the first step
\* that detects an absent or not-implemented snapshot capability, the warning
\* being logged in that same step before the body, never returns to false,
\* and is true if and only if the warning has been logged.
C13_WarnedFlagMachine ==
  /\ ~warned
  /\ [](warned <=> warnings >= 1)
  /\ [][warned => warned']_vars
  /\ [][(~warned /\ warned') => (DetectsMissingSnapshot /\ warnings' = warnings + 1)]_vars
  /\ [][DetectsMissingSnapshot => warned']_vars

\* a later test has found the capability missing again, the flag staying set
C13_Witness ==
  /\ warned
  /\ warnings = 1
  /\ pc = "body"
  /\ cur.snap \in {"absent", "NotImplementedError"}
  /\ \E i \in DOMAIN results : Degraded(results[i])

\* C14: a session on a provider without the snapshot capability and a session
\* on a provider whose snapshot() is not implemented show the same thing over
\* the same tests: in both, what is observed is the same function of the tests
\* run alone: one warning, logged in the first test; every body run and
\* reported with its own outcome; no revert call.
C14_AbsentAndUnimplAlike ==
  active_provider \in {"absent", "unimpl"}
  => /\ warnings = (IF testIdx >= 1 THEN 1 ELSE 0)
     /\ warned = (testIdx >= 1)
     /\ Len(results) = (IF pc = "idle" THEN testIdx ELSE testIdx - 1)
     /\ \A i \in DOMAIN results : results[i].ran /\ results[i].faithful
     /\ (pc = "idle" /\ testIdx >= 1) => cur.reported = cur.body
     /\ Count("revert") = 0
     /\ snapshot_id = None

\* two tests, the last one failing, have finished on a provider whose
\* snapshot() is not implemented
C14_Witness ==
  /\ active_provider = "unimpl"
  /\ pc = "idle"
  /\ Len(results) = 2
  /\ \A i \in DOMAIN results : results[i].snap = "NotImplementedError"
  /\ cur.body = "fail"
  /\ warnings = 1

\* the step in which snapshot() fails with an error other than
\* NotImplementedError
SnapshotFailsOtherwise ==
  /\ Len(calls') = Len(calls) + 1
  /\ calls'[Len(calls')].op = "snapshot"
  /\ calls'[Len(calls')].res \notin {"ok", "NotImplementedError"}

\* C15: a snapshot() failure other than not-implemented propagates: the body
\* of that test is not run, nothing is logged, the flag is unchanged and no
\* revert is called for the test.  A failing revert() propagates and is
\* called once; a failing disconnect() is the only and the last call of
\* disconnect().
C15_OnlyNotImplementedAbsorbed ==
  /\ [][SnapshotFailsOtherwise
          => (UNCHANGED <<warned, warnings>> /\ pc' = "idle" /\ phase' = "abort"
              /\ cur'.reported = "internal_error")]_vars
  /\ [](\A i \in DOMAIN results :
          results[i].snap \notin {"ok", "NotImplementedError", "absent"}
          => /\ ~results[i].ran
             /\ ~results[i].faithful
             /\ \A k \in DOMAIN calls :
                  calls[k].test = results[i].test => calls[k].op # "revert")
  /\ [](\A j \in DOMAIN calls :
          (calls[j].op = "revert" /\ calls[j].res # "ok")
          => /\ phase \in {"abort", "done"}
             /\ cur.reported = "internal_error"
             /\ ~results[Len(results)].faithful
             /\ \A k \in DOMAIN calls :
                  (k # j /\ calls[k].op = "revert") => calls[k].test # calls[j].test
             /\ \A k \in DOMAIN calls : k > j => calls[k].op = "disconnect")
  /\ [](\A j \in DOMAIN calls :
          (calls[j].op = "disconnect" /\ calls[j].res # "ok")
          => (phase = "done" /\ j = Len(calls) /\ Count("disconnect") = 1))

\* a second test's snapshot() has failed with another error, after a first
\* test that passed through snapshot and revert; nothing was logged
C15_Witness ==
  /\ Len(results) = 2
  /\ results[1].snap = "ok"
  /\ results[2].snap = "OtherError"
  /\ ~results[2].ran
  /\ phase = "abort"
  /\ ~warned
  /\ warnings = 0

\* C16: revert is made on a provider, and on the provider whose snapshot()
\* issued the token in the same test, also when the active provider was
\* replaced or cleared while the body ran.
C16_RevertOnIssuingProvider ==
  \A j \in DOMAIN calls :
    calls[j].op = "revert"
    => /\ calls[j].prov # NoProvider
       /\ \E i \in DOMAIN calls :
            /\ i < j
            /\ calls[i].op = "snapshot"
            /\ calls[i].res = "ok"
            /\ calls[i].tok = calls[j].tok
            /\ calls[i].test = calls[j].test
            /\ calls[i].prov = calls[j].prov

\* the calls that make up the provider protocol: connect, the snapshots
\* taken, the reverts and disconnect
IsProtocolCall(c) ==
  \/ c.op \in {"connect", "revert", "disconnect"}
  \/ (c.op = "snapshot" /\ c.res = "ok")

Protocol == SelectSeq(calls, IsProtocolCall)

\* C17: on a provider the runner activated, the calls are connect, then
\* snapshot and revert strictly alternating, then disconnect: nothing before
\* connect or after disconnect, never two snapshots outstanding, and none
\* outstanding at disconnect.
C17_ProviderProtocol ==
  Count("connect") >= 1
  => \A i \in DOMAIN Protocol :
       /\ (i = 1) <=> (Protocol[i].op = "connect")
       /\ Protocol[i].op = "disconnect" => i = Len(Protocol)
       /\ (i > 1 /\ Protocol[i].op = "snapshot")
            => Protocol[i - 1].op \in {"connect", "revert"}
       /\ (i > 1 /\ Protocol[i].op = "revert")
            => Protocol[i - 1].op = "snapshot"
       /\ (i > 1 /\ Protocol[i].op = "disconnect")
            => Protocol[i - 1].op \in {"connect", "revert"}

\* a step of pytest_runtest_protocol, before or after its yield
WrapperStep ==
  \/ (pc = "idle" /\ testIdx' = testIdx + 1)
  \/ (pc = "after" /\ pc' = "idle")

\* a step of pytest_collection_finish or of pytest_sessionfinish
HookStep ==
  \/ collectCalls' = collectCalls + 1
  \/ (phase # "done" /\ phase' = "done")

\* C18: pytest_runtest_protocol leaves the active provider, the connection
\* status and the session's options as they are and calls neither connect()
\* nor disconnect(); pytest_collection_finish and pytest_sessionfinish leave
\* the warned flag and the warnings logged as they are.
C18_Frames ==
  /\ [][WrapperStep
          => /\ UNCHANGED <<active_provider, connected, network_choice, items>>
             /\ Count("connect")' = Count("connect")
             /\ Count("resolve")' = Count("resolve")
             /\ Count("disconnect")' = Count("disconnect")]_vars
  /\ [][HookStep => UNCHANGED <<warned, warnings>>]_vars

\* a session in which a test set the flag has connected and has finished with
\* the flag still set
C18_Witness ==
  /\ phase = "done"
  /\ warned
  /\ results # <<>>
  /\ Count("connect") = 1
  /\ Count("disconnect") = 1
====
